---- MODULE Spec2Model ----
(***************************************************************************)
(* Restaurant problem, receptionist side (semSharedMemReceptionist.c).     *)
(*                                                                         *)
(* One receptionist process and nGroups group processes synchronise with   *)
(* System V semaphores over a shared memory block (sh->fSt).  The          *)
(* receptionist is modelled statement by statement: its program counter    *)
(* rpc names the next statement of the C source it will execute.  The      *)
(* group processes, the semaphore primitives and the initial values of the *)
(* shared block are not part of semSharedMemReceptionist.c; they follow    *)
(* the protocol description (sections 4.1 and 4.3).                        *)
(***************************************************************************)
EXTENDS Integers, Sequences, FiniteSets, TLC

(* ---------------- bounds of the model ---------------- *)
MaxGroups == 3
MaxTables == 2
\* largest number of groups in the runs checked for liveness
MaxLiveGroups == 2

(* ---------------- program constants ---------------- *)
TOARRIVE == 0
WAIT == 1
ATTABLE == 2
DONE == 3

TABLEREQ == 1
BILLREQ == 2

WAIT_FOR_REQUEST == 0
ASSIGNTABLE == 1
RECVPAY == 2

VARIABLES
    nGroups,                      \* sh->fSt.nGroups
    NUMTABLES,                    \* number of tables
    mutex,                        \* semaphore sh->mutex
    receptionistReq,              \* semaphore sh->receptionistReq
    receptionistRequestPossible,  \* semaphore sh->receptionistRequestPossible
    waitForTable,                 \* semaphores sh->waitForTable[g]
    tableDone,                    \* semaphores sh->tableDone[t]
    fSt,                          \* sh->fSt: receptionistStat, receptionistRequest,
                                  \*          assignedTable, groupsWaiting
    saved,                        \* last snapshot written by saveState
    groupRecord,                  \* receptionist's private groupRecord[]
    rpc,                          \* receptionist: next statement
    nReq,                         \* main: nReq
    req,                          \* main: req
    ret,                          \* waitForGroup: ret
    payN,                         \* receivePayment: parameter n
    n,                            \* provideTableOrWaitingRoom: parameter n
    table,                        \* provideTableOrWaitingRoom: table
    group,                        \* receivePayment: group
    caller,                       \* who called provideTableOrWaitingRoom
    gpc,                          \* groups: next step
    gReq,                         \* groups: kind of the request being made
    posted,                       \* history: requests posted, in order
    served                        \* history: requests returned by waitForGroup

cfg == <<nGroups, NUMTABLES>>
sems == <<mutex, receptionistReq, receptionistRequestPossible, waitForTable, tableDone>>
locals == <<nReq, req, ret, payN, n, table, group, caller>>
grp == <<gpc, gReq>>
hist == <<posted, served>>
vars == <<cfg, sems, fSt, saved, groupRecord, rpc, locals, grp, hist>>

Groups == 0 .. (nGroups - 1)
Tables == 0 .. (NUMTABLES - 1)
AllGroups == 0 .. (MaxGroups - 1)
AllTables == 0 .. (MaxTables - 1)

EmptyRequest == [reqType |-> -1, reqGroup |-> -1]

(* ---------------- semaphore primitives ---------------- *)
SemCanDown(v) == v > 0
SemDown(v) == v - 1
SemUp(v) == v + 1

(* ---------------- initial state ---------------- *)
InitShared ==
    /\ mutex = 1
    /\ receptionistReq = 0
    /\ receptionistRequestPossible = 1
    /\ waitForTable = [g \in AllGroups |-> 0]
    /\ tableDone = [t \in AllTables |-> 0]
    /\ fSt = [receptionistStat |-> WAIT_FOR_REQUEST,
              receptionistRequest |-> EmptyRequest,
              assignedTable |-> [g \in AllGroups |-> -1],
              groupsWaiting |-> 0]
    /\ saved = fSt

InitReceptionist ==
    /\ groupRecord = [g \in AllGroups |-> TOARRIVE]
    /\ rpc = "main_while"
    /\ nReq = 0
    /\ req = EmptyRequest
    /\ ret = EmptyRequest
    /\ payN = -1
    /\ n = -1
    /\ table = -1
    /\ group = -1
    /\ caller = "none"

InitGroups ==
    /\ gpc = [g \in AllGroups |-> IF g < nGroups THEN "requestPossible" ELSE "absent"]
    /\ gReq = [g \in AllGroups |-> TABLEREQ]

Init ==
    /\ nGroups \in 1 .. MaxGroups
    /\ NUMTABLES \in 1 .. MaxTables
    /\ InitShared
    /\ InitReceptionist
    /\ InitGroups
    /\ posted = << >>
    /\ served = << >>

(* ---------------- assignment policy ---------------- *)
\* variant: the inner loop starts one group too late
RECURSIVE TableInUse_skip(_, _)
TableInUse_skip(numTable, i) ==
    IF i + 1 >= nGroups THEN FALSE
    ELSE IF fSt.assignedTable[i + 1] = numTable THEN TRUE
    ELSE TableInUse_skip(numTable, i + 1)

\* inner loop of decideTableOrWait: is numTable some group's assignment?
RECURSIVE TableInUse(_, _)
TableInUse(numTable, i) ==
    IF i >= nGroups THEN FALSE
    ELSE IF fSt.assignedTable[i] = numTable THEN TRUE
    ELSE TableInUse(numTable, i + 1)

\* variant: the first index below NUMTABLES is taken without looking at the groups
ScanTables_nocheck(numTable) ==
    IF numTable >= NUMTABLES THEN -1 ELSE numTable

\* variant: the outer loop goes on after a free table is found (no break),
\* so the last free index is kept
RECURSIVE ScanTables_nobreak(_)
ScanTables_nobreak(numTable) ==
    IF numTable >= NUMTABLES THEN -1
    ELSE LET later == ScanTables_nobreak(numTable + 1) IN
         IF later # -1 THEN later
         ELSE IF ~TableInUse(numTable, 0) THEN numTable
         ELSE -1

RECURSIVE ScanTables(_)
ScanTables(numTable) ==
    IF numTable >= NUMTABLES THEN -1
    ELSE IF ~TableInUse(numTable, 0) THEN numTable
    ELSE ScanTables(numTable + 1)

decideTableOrWait(g) == ScanTables(0)

\* variant: the scan looks for a seated group instead of a waiting one
RECURSIVE ScanGroups_seated(_)
ScanGroups_seated(i) ==
    IF i >= nGroups THEN -1
    ELSE IF groupRecord[i] = ATTABLE THEN i
    ELSE ScanGroups_seated(i + 1)

\* variant: the loop goes on after a waiting group is found (no break),
\* so the last waiting index is kept
RECURSIVE ScanGroups_nobreak(_)
ScanGroups_nobreak(i) ==
    IF i >= nGroups THEN -1
    ELSE LET later == ScanGroups_nobreak(i + 1) IN
         IF later # -1 THEN later
         ELSE IF groupRecord[i] = WAIT THEN i
         ELSE -1

RECURSIVE ScanGroups(_)
ScanGroups(i) ==
    IF i >= nGroups THEN -1
    ELSE IF groupRecord[i] = WAIT THEN i
    ELSE ScanGroups(i + 1)

decideNextGroup == ScanGroups(0)

(* ---------------- external collaborators ---------------- *)
saveState == saved' = fSt'

(* ---------------- receptionist: main ---------------- *)
\* while (nReq < sh->fSt.nGroups * 2) req = waitForGroup();
main_while ==
    /\ rpc = "main_while"
    /\ nReq < nGroups * 2
    /\ rpc' = "waitForGroup_enter1"
    /\ UNCHANGED <<cfg, sems, fSt, saved, groupRecord, locals, grp, hist>>

\* the loop condition fails: the receptionist leaves the loop and ends
main_exit ==
    /\ rpc = "main_while"
    /\ ~(nReq < nGroups * 2)
    /\ rpc' = "main_end"
    /\ UNCHANGED <<cfg, sems, fSt, saved, groupRecord, locals, grp, hist>>

\* switch (req.reqType)
main_switch ==
    /\ rpc = "main_switch"
    /\ IF req.reqType = TABLEREQ
       THEN /\ rpc' = "provide_enter"
            /\ n' = req.reqGroup
            /\ caller' = "main"
            /\ UNCHANGED payN
       ELSE IF req.reqType = BILLREQ
       THEN /\ rpc' = "receive_enter"
            /\ payN' = req.reqGroup
            /\ UNCHANGED <<n, caller>>
       ELSE /\ rpc' = "main_inc"
            /\ UNCHANGED <<n, caller, payN>>
    /\ UNCHANGED <<cfg, sems, fSt, saved, groupRecord, nReq, req, ret, table, group, grp, hist>>

\* nReq++;
main_inc ==
    /\ rpc = "main_inc"
    /\ nReq' = nReq + 1
    /\ rpc' = "main_while"
    /\ UNCHANGED <<cfg, sems, fSt, saved, groupRecord, req, ret, payN, n, table, group,
                   caller, grp, hist>>

(* ---------------- receptionist: waitForGroup ---------------- *)
\* variant: the first critical region is entered without the down on mutex
waitForGroup_enter1_nolock ==
    /\ rpc = "waitForGroup_enter1"
    /\ rpc' = "waitForGroup_stat"
    /\ UNCHANGED <<cfg, sems, fSt, saved, groupRecord, locals, grp, hist>>

waitForGroup_enter1 ==
    /\ rpc = "waitForGroup_enter1"
    /\ SemCanDown(mutex)
    /\ mutex' = SemDown(mutex)
    /\ rpc' = "waitForGroup_stat"
    /\ UNCHANGED <<cfg, receptionistReq, receptionistRequestPossible, waitForTable,
                   tableDone, fSt, saved, groupRecord, locals, grp, hist>>

\* variant: the status is not updated before waiting
waitForGroup_stat_skip ==
    /\ rpc = "waitForGroup_stat"
    /\ rpc' = "waitForGroup_save1"
    /\ UNCHANGED <<cfg, sems, fSt, saved, groupRecord, locals, grp, hist>>

waitForGroup_stat ==
    /\ rpc = "waitForGroup_stat"
    /\ fSt' = [fSt EXCEPT !.receptionistStat = WAIT_FOR_REQUEST]
    /\ rpc' = "waitForGroup_save1"
    /\ UNCHANGED <<cfg, sems, saved, groupRecord, locals, grp, hist>>

waitForGroup_save1 ==
    /\ rpc = "waitForGroup_save1"
    /\ UNCHANGED fSt
    /\ saveState
    /\ rpc' = "waitForGroup_exit1"
    /\ UNCHANGED <<cfg, sems, groupRecord, locals, grp, hist>>

waitForGroup_exit1 ==
    /\ rpc = "waitForGroup_exit1"
    /\ mutex' = SemUp(mutex)
    /\ rpc' = "waitForGroup_block"
    /\ UNCHANGED <<cfg, receptionistReq, receptionistRequestPossible, waitForTable,
                   tableDone, fSt, saved, groupRecord, locals, grp, hist>>

\* variant: the receptionist does not wait for a pending request
waitForGroup_block_nowait ==
    /\ rpc = "waitForGroup_block"
    /\ rpc' = "waitForGroup_enter2"
    /\ UNCHANGED <<cfg, sems, fSt, saved, groupRecord, locals, grp, hist>>

waitForGroup_block ==
    /\ rpc = "waitForGroup_block"
    /\ SemCanDown(receptionistReq)
    /\ receptionistReq' = SemDown(receptionistReq)
    /\ rpc' = "waitForGroup_enter2"
    /\ UNCHANGED <<cfg, mutex, receptionistRequestPossible, waitForTable,
                   tableDone, fSt, saved, groupRecord, locals, grp, hist>>

waitForGroup_enter2 ==
    /\ rpc = "waitForGroup_enter2"
    /\ SemCanDown(mutex)
    /\ mutex' = SemDown(mutex)
    /\ rpc' = "waitForGroup_copy"
    /\ UNCHANGED <<cfg, receptionistReq, receptionistRequestPossible, waitForTable,
                   tableDone, fSt, saved, groupRecord, locals, grp, hist>>

\* variant: the request is copied out but the slot is left as it is
waitForGroup_copy_noreset ==
    /\ rpc = "waitForGroup_copy"
    /\ ret' = fSt.receptionistRequest
    /\ rpc' = "waitForGroup_save2"
    /\ UNCHANGED <<cfg, sems, fSt, saved, groupRecord, nReq, req, payN, n, table, group,
                   caller, grp, hist>>

\* ret = sh->fSt.receptionistRequest; then both fields of the slot are reset
waitForGroup_copy ==
    /\ rpc = "waitForGroup_copy"
    /\ ret' = fSt.receptionistRequest
    /\ fSt' = [fSt EXCEPT !.receptionistRequest = EmptyRequest]
    /\ rpc' = "waitForGroup_save2"
    /\ UNCHANGED <<cfg, sems, saved, groupRecord, nReq, req, payN, n, table, group,
                   caller, grp, hist>>

waitForGroup_save2 ==
    /\ rpc = "waitForGroup_save2"
    /\ UNCHANGED fSt
    /\ saveState
    /\ rpc' = "waitForGroup_exit2"
    /\ UNCHANGED <<cfg, sems, groupRecord, locals, grp, hist>>

waitForGroup_exit2 ==
    /\ rpc = "waitForGroup_exit2"
    /\ mutex' = SemUp(mutex)
    /\ rpc' = "waitForGroup_signal"
    /\ UNCHANGED <<cfg, receptionistReq, receptionistRequestPossible, waitForTable,
                   tableDone, fSt, saved, groupRecord, locals, grp, hist>>

\* semUp(receptionistRequestPossible); return ret;  (main: req = waitForGroup())
waitForGroup_signal ==
    /\ rpc = "waitForGroup_signal"
    /\ receptionistRequestPossible' = SemUp(receptionistRequestPossible)
    /\ req' = ret
    /\ ret' = EmptyRequest
    /\ served' = Append(served, ret)
    /\ rpc' = "main_switch"
    /\ UNCHANGED <<cfg, mutex, receptionistReq, waitForTable, tableDone, fSt, saved,
                   groupRecord, nReq, payN, n, table, group, caller, grp, posted>>

(* ---------------- receptionist: provideTableOrWaitingRoom ---------------- *)
provide_enter ==
    /\ rpc = "provide_enter"
    /\ SemCanDown(mutex)
    /\ mutex' = SemDown(mutex)
    /\ rpc' = "provide_stat"
    /\ UNCHANGED <<cfg, receptionistReq, receptionistRequestPossible, waitForTable,
                   tableDone, fSt, saved, groupRecord, locals, grp, hist>>

provide_stat ==
    /\ rpc = "provide_stat"
    /\ fSt' = [fSt EXCEPT !.receptionistStat = ASSIGNTABLE]
    /\ rpc' = "provide_save"
    /\ UNCHANGED <<cfg, sems, saved, groupRecord, locals, grp, hist>>

provide_save ==
    /\ rpc = "provide_save"
    /\ UNCHANGED fSt
    /\ saveState
    /\ rpc' = "provide_decide"
    /\ UNCHANGED <<cfg, sems, groupRecord, locals, grp, hist>>

\* int table = decideTableOrWait(n); if (table != -1) ... else ...
provide_decide ==
    /\ rpc = "provide_decide"
    /\ table' = decideTableOrWait(n)
    /\ rpc' = IF table' # -1 THEN "provide_assign" ELSE "provide_count"
    /\ UNCHANGED <<cfg, sems, fSt, saved, groupRecord, nReq, req, ret, payN, n, group,
                   caller, grp, hist>>

\* sh->fSt.assignedTable[n] = table;
provide_assign ==
    /\ rpc = "provide_assign"
    /\ fSt' = [fSt EXCEPT !.assignedTable[n] = table]
    /\ rpc' = "provide_seat"
    /\ UNCHANGED <<cfg, sems, saved, groupRecord, locals, grp, hist>>

\* groupRecord[n] = ATTABLE;
provide_seat ==
    /\ rpc = "provide_seat"
    /\ groupRecord' = [groupRecord EXCEPT ![n] = ATTABLE]
    /\ rpc' = "provide_signal"
    /\ UNCHANGED <<cfg, sems, fSt, saved, locals, grp, hist>>

\* variant: the group is seated but its semaphore is not raised
provide_signal_nosignal ==
    /\ rpc = "provide_signal"
    /\ rpc' = "provide_exit"
    /\ UNCHANGED <<cfg, sems, fSt, saved, groupRecord, locals, grp, hist>>

\* semUp(semgid, sh->waitForTable[n])
provide_signal ==
    /\ rpc = "provide_signal"
    /\ waitForTable' = [waitForTable EXCEPT ![n] = SemUp(waitForTable[n])]
    /\ rpc' = "provide_exit"
    /\ UNCHANGED <<cfg, mutex, receptionistReq, receptionistRequestPossible, tableDone,
                   fSt, saved, groupRecord, locals, grp, hist>>

\* sh->fSt.groupsWaiting++;
provide_count ==
    /\ rpc = "provide_count"
    /\ fSt' = [fSt EXCEPT !.groupsWaiting = fSt.groupsWaiting + 1]
    /\ rpc' = "provide_wait"
    /\ UNCHANGED <<cfg, sems, saved, groupRecord, locals, grp, hist>>

\* variant: the up on waitForTable[n] is placed after the if/else, so a
\* group that is made to wait is signalled as well
provide_wait_signal ==
    /\ rpc = "provide_wait"
    /\ groupRecord' = [groupRecord EXCEPT ![n] = WAIT]
    /\ rpc' = "provide_signal"
    /\ UNCHANGED <<cfg, sems, fSt, saved, locals, grp, hist>>

\* groupRecord[n] = WAIT;
provide_wait ==
    /\ rpc = "provide_wait"
    /\ groupRecord' = [groupRecord EXCEPT ![n] = WAIT]
    /\ rpc' = "provide_exit"
    /\ UNCHANGED <<cfg, sems, fSt, saved, locals, grp, hist>>

\* variant: provideTableOrWaitingRoom returns without the up on mutex
provide_exit_norelease ==
    /\ rpc = "provide_exit"
    /\ rpc' = IF caller = "main" THEN "main_inc" ELSE "receive_count"
    /\ n' = -1
    /\ table' = -1
    /\ caller' = "none"
    /\ UNCHANGED <<cfg, sems, fSt, saved, groupRecord, nReq, req, ret, payN, group,
                   grp, hist>>

\* semUp(semgid, sh->mutex) and return to the caller
provide_exit ==
    /\ rpc = "provide_exit"
    /\ mutex' = SemUp(mutex)
    /\ rpc' = IF caller = "main" THEN "main_inc" ELSE "receive_count"
    /\ n' = -1
    /\ table' = -1
    /\ caller' = "none"
    /\ UNCHANGED <<cfg, receptionistReq, receptionistRequestPossible, waitForTable,
                   tableDone, fSt, saved, groupRecord, nReq, req, ret, payN, group,
                   grp, hist>>

(* ---------------- receptionist: receivePayment ---------------- *)
receive_enter ==
    /\ rpc = "receive_enter"
    /\ SemCanDown(mutex)
    /\ mutex' = SemDown(mutex)
    /\ rpc' = "receive_stat"
    /\ UNCHANGED <<cfg, receptionistReq, receptionistRequestPossible, waitForTable,
                   tableDone, fSt, saved, groupRecord, locals, grp, hist>>

receive_stat ==
    /\ rpc = "receive_stat"
    /\ fSt' = [fSt EXCEPT !.receptionistStat = RECVPAY]
    /\ rpc' = "receive_save1"
    /\ UNCHANGED <<cfg, sems, saved, groupRecord, locals, grp, hist>>

receive_save1 ==
    /\ rpc = "receive_save1"
    /\ UNCHANGED fSt
    /\ saveState
    /\ rpc' = "receive_vacate"
    /\ UNCHANGED <<cfg, sems, groupRecord, locals, grp, hist>>

\* variant: tableDone is indexed by the group instead of by its table
receive_vacate_byGroup ==
    /\ rpc = "receive_vacate"
    /\ IF payN \in AllTables
       THEN tableDone' = [tableDone EXCEPT ![payN] = SemUp(tableDone[payN])]
       ELSE tableDone' = tableDone
    /\ rpc' = "receive_clear"
    /\ UNCHANGED <<cfg, mutex, receptionistReq, receptionistRequestPossible, waitForTable,
                   fSt, saved, groupRecord, locals, grp, hist>>

\* semUp(semgid, sh->tableDone[sh->fSt.assignedTable[n]]); an index outside
\* the semaphore array may reach any of the semaphores or none of them
receive_vacate ==
    /\ rpc = "receive_vacate"
    /\ LET t == fSt.assignedTable[payN] IN
         IF t \in AllTables
         THEN tableDone' = [tableDone EXCEPT ![t] = SemUp(tableDone[t])]
         ELSE \/ tableDone' = tableDone
              \/ \E u \in AllTables : tableDone' = [tableDone EXCEPT ![u] = SemUp(tableDone[u])]
    /\ rpc' = "receive_clear"
    /\ UNCHANGED <<cfg, mutex, receptionistReq, receptionistRequestPossible, waitForTable,
                   fSt, saved, groupRecord, locals, grp, hist>>

\* variant: the paying group's table assignment is not cleared
receive_clear_skip ==
    /\ rpc = "receive_clear"
    /\ rpc' = "receive_done"
    /\ UNCHANGED <<cfg, sems, fSt, saved, groupRecord, locals, grp, hist>>

\* sh->fSt.assignedTable[n] = -1;
receive_clear ==
    /\ rpc = "receive_clear"
    /\ fSt' = [fSt EXCEPT !.assignedTable[payN] = -1]
    /\ rpc' = "receive_done"
    /\ UNCHANGED <<cfg, sems, saved, groupRecord, locals, grp, hist>>

\* groupRecord[n] = DONE;
receive_done ==
    /\ rpc = "receive_done"
    /\ groupRecord' = [groupRecord EXCEPT ![payN] = DONE]
    /\ rpc' = "receive_save2"
    /\ UNCHANGED <<cfg, sems, fSt, saved, locals, grp, hist>>

receive_save2 ==
    /\ rpc = "receive_save2"
    /\ UNCHANGED fSt
    /\ saveState
    /\ rpc' = "receive_exit"
    /\ UNCHANGED <<cfg, sems, groupRecord, locals, grp, hist>>

\* variant: receivePayment goes on without the up on mutex
receive_exit_norelease ==
    /\ rpc = "receive_exit"
    /\ rpc' = "receive_next"
    /\ UNCHANGED <<cfg, sems, fSt, saved, groupRecord, locals, grp, hist>>

receive_exit ==
    /\ rpc = "receive_exit"
    /\ mutex' = SemUp(mutex)
    /\ rpc' = "receive_next"
    /\ UNCHANGED <<cfg, receptionistReq, receptionistRequestPossible, waitForTable,
                   tableDone, fSt, saved, groupRecord, locals, grp, hist>>

\* variant: receivePayment returns without looking for a waiting group
receive_next_noreassign ==
    /\ rpc = "receive_next"
    /\ rpc' = "main_inc"
    /\ payN' = -1
    /\ UNCHANGED <<cfg, sems, fSt, saved, groupRecord, nReq, req, ret, n, table, group,
                   caller, grp, hist>>

\* int group = decideNextGroup(); if (group != -1) provideTableOrWaitingRoom(group);
receive_next ==
    /\ rpc = "receive_next"
    /\ group' = decideNextGroup
    /\ IF group' # -1
       THEN /\ rpc' = "provide_enter"
            /\ n' = group'
            /\ caller' = "receivePayment"
            /\ UNCHANGED payN
       ELSE /\ rpc' = "main_inc"
            /\ group' = -1
            /\ payN' = -1
            /\ UNCHANGED <<n, caller>>
    /\ UNCHANGED <<cfg, sems, fSt, saved, groupRecord, nReq, req, ret, table, grp, hist>>

\* variant: receivePayment returns without decrementing groupsWaiting
receive_count_nodec ==
    /\ rpc = "receive_count"
    /\ rpc' = "main_inc"
    /\ payN' = -1
    /\ group' = -1
    /\ UNCHANGED <<cfg, sems, fSt, saved, groupRecord, nReq, req, ret, n, table, caller,
                   grp, hist>>

\* sh->fSt.groupsWaiting--;  then receivePayment returns
receive_count ==
    /\ rpc = "receive_count"
    /\ fSt' = [fSt EXCEPT !.groupsWaiting = fSt.groupsWaiting - 1]
    /\ rpc' = "main_inc"
    /\ payN' = -1
    /\ group' = -1
    /\ UNCHANGED <<cfg, sems, saved, groupRecord, nReq, req, ret, n, table, caller,
                   grp, hist>>

Receptionist ==
    \/ main_while \/ main_exit \/ main_switch \/ main_inc
    \/ waitForGroup_enter1 \/ waitForGroup_stat \/ waitForGroup_save1
    \/ waitForGroup_exit1 \/ waitForGroup_block \/ waitForGroup_enter2
    \/ waitForGroup_copy \/ waitForGroup_save2 \/ waitForGroup_exit2
    \/ waitForGroup_signal
    \/ provide_enter \/ provide_stat \/ provide_save \/ provide_decide
    \/ provide_assign \/ provide_seat \/ provide_signal \/ provide_count
    \/ provide_wait \/ provide_exit
    \/ receive_enter \/ receive_stat \/ receive_save1 \/ receive_vacate
    \/ receive_clear \/ receive_done \/ receive_save2 \/ receive_exit
    \/ receive_next \/ receive_count

(* ---------------- groups ---------------- *)
\* acquire "request slot available"
group_requestPossible(g) ==
    /\ gpc[g] = "requestPossible"
    /\ SemCanDown(receptionistRequestPossible)
    /\ receptionistRequestPossible' = SemDown(receptionistRequestPossible)
    /\ gpc' = [gpc EXCEPT ![g] = "enter"]
    /\ UNCHANGED <<cfg, mutex, receptionistReq, waitForTable, tableDone, fSt, saved,
                   groupRecord, rpc, locals, gReq, hist>>

group_enter(g) ==
    /\ gpc[g] = "enter"
    /\ SemCanDown(mutex)
    /\ mutex' = SemDown(mutex)
    /\ gpc' = [gpc EXCEPT ![g] = "post"]
    /\ UNCHANGED <<cfg, receptionistReq, receptionistRequestPossible, waitForTable,
                   tableDone, fSt, saved, groupRecord, rpc, locals, gReq, hist>>

\* write {kind, self} into the shared request slot
group_post(g) ==
    /\ gpc[g] = "post"
    /\ fSt' = [fSt EXCEPT !.receptionistRequest = [reqType |-> gReq[g], reqGroup |-> g]]
    /\ posted' = Append(posted, [reqType |-> gReq[g], reqGroup |-> g])
    /\ gpc' = [gpc EXCEPT ![g] = "exit"]
    /\ UNCHANGED <<cfg, sems, saved, groupRecord, rpc, locals, gReq, served>>

group_exit(g) ==
    /\ gpc[g] = "exit"
    /\ mutex' = SemUp(mutex)
    /\ gpc' = [gpc EXCEPT ![g] = "signal"]
    /\ UNCHANGED <<cfg, receptionistReq, receptionistRequestPossible, waitForTable,
                   tableDone, fSt, saved, groupRecord, rpc, locals, gReq, hist>>

\* release "request pending"; a table request then waits for its table,
\* a bill request ends the group
group_signal(g) ==
    /\ gpc[g] = "signal"
    /\ receptionistReq' = SemUp(receptionistReq)
    /\ gpc' = [gpc EXCEPT ![g] = IF gReq[g] = TABLEREQ THEN "waitForTable" ELSE "done"]
    /\ UNCHANGED <<cfg, mutex, receptionistRequestPossible, waitForTable, tableDone,
                   fSt, saved, groupRecord, rpc, locals, gReq, hist>>

\* acquire the group's own "table ready" gate; the group then eats and
\* goes on to request the bill
group_waitForTable(g) ==
    /\ gpc[g] = "waitForTable"
    /\ SemCanDown(waitForTable[g])
    /\ waitForTable' = [waitForTable EXCEPT ![g] = SemDown(waitForTable[g])]
    /\ gpc' = [gpc EXCEPT ![g] = "requestPossible"]
    /\ gReq' = [gReq EXCEPT ![g] = BILLREQ]
    /\ UNCHANGED <<cfg, mutex, receptionistReq, receptionistRequestPossible, tableDone,
                   fSt, saved, groupRecord, rpc, locals, hist>>

Group(g) ==
    \/ group_requestPossible(g) \/ group_enter(g) \/ group_post(g)
    \/ group_exit(g) \/ group_signal(g) \/ group_waitForTable(g)

Next == Receptionist \/ \E g \in AllGroups : Group(g)

Spec == Init /\ [][Next]_vars

\* the same system with at most MaxLiveGroups groups, every process weakly fair
FairInit == Init /\ nGroups <= MaxLiveGroups

FairSpec ==
    /\ FairInit
    /\ [][Next]_vars
    /\ WF_vars(Receptionist)
    /\ \A g \in AllGroups : WF_vars(Group(g))

(* ---------------- type correctness ---------------- *)
TypeOK ==
    /\ nGroups \in 1 .. MaxGroups
    /\ NUMTABLES \in 1 .. MaxTables
    /\ mutex \in 0 .. 1
    /\ receptionistReq \in 0 .. 1
    /\ receptionistRequestPossible \in 0 .. 1
    /\ \A g \in AllGroups : waitForTable[g] \in 0 .. 1
    /\ \A t \in AllTables : tableDone[t] \in 0 .. MaxGroups
    /\ fSt.groupsWaiting \in 0 .. MaxGroups
    /\ nReq \in 0 .. 2 * MaxGroups

(* ---------------- critical regions ---------------- *)
\* labels at which the receptionist is between a down and the matching up of mutex
ReceptionistRegion ==
    {"waitForGroup_stat", "waitForGroup_save1", "waitForGroup_exit1",
     "waitForGroup_copy", "waitForGroup_save2", "waitForGroup_exit2",
     "provide_stat", "provide_save", "provide_decide", "provide_assign",
     "provide_seat", "provide_signal", "provide_count", "provide_wait",
     "provide_exit",
     "receive_stat", "receive_save1", "receive_vacate", "receive_clear",
     "receive_done", "receive_save2", "receive_exit"}

ReceptionistInside == rpc \in ReceptionistRegion
GroupInside(g) == gpc[g] \in {"post", "exit"}
NumInside ==
    (IF ReceptionistInside THEN 1 ELSE 0) + Cardinality({g \in Groups : GroupInside(g)})

NumWaiting == Cardinality({g \in Groups : groupRecord[g] = WAIT})

(* ---------------- C1 ---------------- *)
\* C1: mutual exclusion.  In every reachable state the mutex count is 0 or 1,
\* at most one actor (receptionist or group) is inside a region bounded by
\* down/up of mutex, and the count is 0 exactly when one actor is inside.
C1_MutualExclusion ==
    /\ mutex \in {0, 1}
    /\ NumInside <= 1
    /\ (mutex = 0) <=> (NumInside = 1)

\* a group is inside its critical region while the receptionist stands at
\* the entry of one of its own
C1_Witness ==
    /\ \E g \in Groups : GroupInside(g)
    /\ rpc \in {"waitForGroup_enter1", "waitForGroup_enter2", "provide_enter", "receive_enter"}
    /\ mutex = 0

(* ---------------- C2 ---------------- *)
\* C2: table uniqueness.  Every group's assignedTable is -1 or an index in
\* [0, NUMTABLES), and no two distinct groups share a table index.
C2_TableUniqueness ==
    /\ \A g \in Groups : fSt.assignedTable[g] = -1 \/ fSt.assignedTable[g] \in Tables
    /\ \A g, h \in Groups :
         (g # h /\ fSt.assignedTable[g] # -1) => fSt.assignedTable[g] # fSt.assignedTable[h]

\* every table is taken, a further group has asked and is waiting
C2_Witness ==
    /\ \A t \in Tables : \E g \in Groups : fSt.assignedTable[g] = t
    /\ \E g \in Groups : groupRecord[g] = WAIT
    /\ \E g \in Groups : groupRecord[g] = DONE

(* ---------------- C3 ---------------- *)
\* C3: every write of the receptionist to the shared block sh->fSt (status,
\* request slot, table assignments, groupsWaiting) is made while the
\* receptionist holds mutex.
C3_WritesUnderMutex ==
    [][(rpc' # rpc /\ fSt' # fSt) => (ReceptionistInside /\ mutex = 0)]_vars

(* ---------------- C5 ---------------- *)
\* C5: waiting-count consistency at quiescent points.  Whenever the
\* receptionist stands at the down on receptionistReq in waitForGroup,
\* groupsWaiting equals the number of groups recorded as WAIT.
C5_WaitingCountQuiescent ==
    (rpc = "waitForGroup_block") => (fSt.groupsWaiting = NumWaiting)

\* quiescent after a payment that handed the table to a waiting group,
\* with another group still waiting
C5_Witness ==
    /\ rpc = "waitForGroup_block"
    /\ fSt.groupsWaiting = 1
    /\ \E g \in Groups : groupRecord[g] = DONE
    /\ \E g \in Groups : groupRecord[g] = WAIT

(* ---------------- C6 ---------------- *)
\* C6: groupsWaiting equals the number of groups recorded as WAIT in every
\* reachable state; stated here for the states the claim singles out, those
\* in which mutex is free.
C6_WaitingCountWhenFree ==
    (mutex = 1) => (fSt.groupsWaiting = NumWaiting)

(* ---------------- request slot ---------------- *)
\* requests the receptionist has copied out of the slot so far
Copied ==
    Len(served) +
    (IF rpc \in {"waitForGroup_save2", "waitForGroup_exit2", "waitForGroup_signal"}
     THEN 1 ELSE 0)

(* ---------------- C7 ---------------- *)
\* C7: single-slot request delivery.  At most one posted request is not yet
\* copied out; the slot holds exactly that request (no post overwrites an
\* unconsumed one) and is empty otherwise; the requests waitForGroup returns
\* are the posted ones, each once and in order; waitForGroup never returns
\* the empty request; when the receptionist ends, every post was returned.
C7_SingleSlotDelivery ==
    /\ Len(posted) - Copied \in {0, 1}
    /\ fSt.receptionistRequest =
         (IF Len(posted) > Copied THEN posted[Len(posted)] ELSE EmptyRequest)
    /\ Len(served) <= Len(posted)
    /\ \A i \in 1 .. Len(served) : served[i] = posted[i]
    /\ \A i, j \in 1 .. Len(posted) : (i # j) => (posted[i] # posted[j])
    /\ \A i \in 1 .. Len(served) : served[i] # EmptyRequest
    /\ (rpc = "main_end") => (served = posted /\ Len(served) = 2 * nGroups)

\* a second group holds the slot gate and is about to post while the first
\* request has just been returned
C7_Witness ==
    /\ Len(served) >= 1
    /\ \E g \in Groups : gpc[g] = "post"
    /\ Len(posted) = Len(served)
    /\ fSt.receptionistRequest = EmptyRequest

(* ---------------- C8 ---------------- *)
\* C8: empty slot after consumption.  Once waitForGroup has copied a request
\* out and no group has posted since, the slot reads {-1, -1}; and no step of
\* the receptionist changes the slot to anything but {-1, -1}.
C8_EmptyAfterConsumption ==
    /\ []((Copied >= 1 /\ Copied = Len(posted)) => fSt.receptionistRequest = EmptyRequest)
    /\ [][(rpc' # rpc /\ fSt'.receptionistRequest # fSt.receptionistRequest)
            => fSt'.receptionistRequest = EmptyRequest]_vars

\* the receptionist is handling a request it consumed; the slot is empty
C8_Witness ==
    /\ rpc \in {"provide_decide", "receive_vacate"}
    /\ Copied >= 1
    /\ Copied = Len(posted)
    /\ fSt.receptionistRequest = EmptyRequest

(* ---------------- requests and progress of the main loop ---------------- *)
TableRequest(g) == [reqType |-> TABLEREQ, reqGroup |-> g]
BillRequest(g) == [reqType |-> BILLREQ, reqGroup |-> g]

\* the receptionist has returned exactly the requests sq from waitForGroup
\* and has finished handling all of them
Handled(sq) == served = sq /\ nReq = Len(sq)

(* ---------------- C4 ---------------- *)
\* C4: no lost wakeup.  Under weak fairness of the receptionist and of every
\* group, a group that has posted its table request is eventually recorded
\* as ATTABLE with its waitForTable semaphore raised, and its down on that
\* semaphore eventually returns.
C4_NoLostWakeup ==
    \A g \in AllGroups :
        /\ (gpc[g] = "signal" /\ gReq[g] = TABLEREQ)
              ~> (groupRecord[g] = ATTABLE /\ waitForTable[g] = 1)
        /\ (gpc[g] = "signal" /\ gReq[g] = TABLEREQ) ~> (gReq[g] = BILLREQ)

\* a group that had to wait is seated by the call made from receivePayment
C4_Witness ==
    /\ rpc = "provide_exit"
    /\ caller = "receivePayment"
    /\ groupRecord[n] = ATTABLE
    /\ waitForTable[n] = 1
    /\ gpc[n] = "waitForTable"

(* ---------------- C9 ---------------- *)
\* C9: scenario A (two groups, one table).  After group 0's table request:
\* group 0 is ATTABLE at table 0.  After group 1's table request: group 1 is
\* WAIT and groupsWaiting is 1.  After group 0's bill request, before any
\* further request is returned: group 0 is DONE without a table, group 1 is
\* ATTABLE at table 0, its waitForTable semaphore was raised, groupsWaiting
\* is 0.
C9_ScenarioA ==
    (nGroups = 2 /\ NUMTABLES = 1) =>
      /\ Handled(<<TableRequest(0)>>) =>
           /\ groupRecord[0] = ATTABLE
           /\ fSt.assignedTable[0] = 0
      /\ Handled(<<TableRequest(0), TableRequest(1)>>) =>
           /\ groupRecord[1] = WAIT
           /\ fSt.assignedTable[1] = -1
           /\ fSt.groupsWaiting = 1
      /\ Handled(<<TableRequest(0), TableRequest(1), BillRequest(0)>>) =>
           /\ fSt.assignedTable[0] = -1
           /\ groupRecord[0] = DONE
           /\ fSt.assignedTable[1] = 0
           /\ groupRecord[1] = ATTABLE
           /\ (waitForTable[1] = 1 \/ gReq[1] = BILLREQ)
           /\ fSt.groupsWaiting = 0

\* the third step of the scenario has been handled
C9_Witness ==
    /\ nGroups = 2
    /\ NUMTABLES = 1
    /\ Handled(<<TableRequest(0), TableRequest(1), BillRequest(0)>>)

(* ---------------- C10 ---------------- *)
\* C10: scenario C (one table).  Once the receptionist has handled two table
\* requests and no bill request, the group whose request was returned first
\* is ATTABLE at table 0 and the other one is WAIT without a table.
C10_ScenarioC ==
    (/\ NUMTABLES = 1
     /\ Len(served) = 2
     /\ nReq = 2
     /\ served[1].reqType = TABLEREQ
     /\ served[2].reqType = TABLEREQ) =>
        LET first == served[1].reqGroup
            second == served[2].reqGroup
        IN  /\ first # second
            /\ groupRecord[first] = ATTABLE
            /\ fSt.assignedTable[first] = 0
            /\ groupRecord[second] = WAIT
            /\ fSt.assignedTable[second] = -1

\* both requests handled; group 1 won the race for the slot
C10_Witness ==
    /\ nGroups = 2
    /\ NUMTABLES = 1
    /\ Handled(<<TableRequest(1), TableRequest(0)>>)

(* ---------------- decideTableOrWait on its own ---------------- *)
\* assignment vectors: an entry below NUMTABLES for each group, -1 beyond nGroups
AssignmentVectors ==
    {f \in [AllGroups -> -1 .. (MaxTables - 1)] :
        \A g \in AllGroups : IF g < nGroups THEN f[g] < NUMTABLES ELSE f[g] = -1}

PolicyInit ==
    /\ nGroups \in 1 .. MaxGroups
    /\ NUMTABLES \in 1 .. MaxTables
    /\ mutex = 0
    /\ receptionistReq = 0
    /\ receptionistRequestPossible = 1
    /\ waitForTable = [g \in AllGroups |-> 0]
    /\ tableDone = [t \in AllTables |-> 0]
    /\ \E f \in AssignmentVectors :
          fSt = [receptionistStat |-> ASSIGNTABLE,
                 receptionistRequest |-> EmptyRequest,
                 assignedTable |-> f,
                 groupsWaiting |-> 0]
    /\ saved = fSt
    /\ InitReceptionist
    /\ InitGroups
    /\ posted = << >>
    /\ served = << >>

\* int table = decideTableOrWait(n), for any group n
policy_decideTable ==
    /\ rpc = "main_while"
    /\ \E g \in Groups :
         /\ n' = g
         /\ table' = decideTableOrWait(g)
    /\ rpc' = "policy_decided"
    /\ UNCHANGED <<cfg, sems, fSt, saved, groupRecord, nReq, req, ret, payN, group,
                   caller, grp, hist>>

PolicyNext == policy_decideTable

PolicySpec == PolicyInit /\ [][PolicyNext]_vars

\* tables that are no group's assignment
FreeTables == {t \in Tables : \A g \in Groups : fSt.assignedTable[g] # t}

(* ---------------- C11 ---------------- *)
\* C11: for every assignment vector, decideTableOrWait returns the smallest
\* table index that is no group's assignment, and -1 exactly when every
\* index is some group's assignment; one group with two free tables gets 0.
C11_FirstFreeTable ==
    (rpc = "policy_decided") =>
        /\ (table = -1) <=> (FreeTables = {})
        /\ (table # -1) => (table \in FreeTables /\ \A t \in FreeTables : table <= t)
        /\ (nGroups = 1 /\ NUMTABLES = 2 /\ fSt.assignedTable[0] = -1) => (table = 0)

\* table 0 is taken, table 1 is free and is the answer
C11_Witness ==
    /\ rpc = "policy_decided"
    /\ NUMTABLES = 2
    /\ \E g \in Groups : fSt.assignedTable[g] = 0
    /\ table = 1

(* ---------------- C12 ---------------- *)
Waiting == {g \in Groups : groupRecord[g] = WAIT}

\* C12: in receivePayment, decideNextGroup yields -1 exactly when no group is
\* WAIT and otherwise the lowest WAIT index, whatever the order in which the
\* waiting groups asked; that group is the one provideTableOrWaitingRoom is
\* called for, and it is ATTABLE with a table when the call returns.
C12_LowestWaitingFirst ==
    /\ [][(rpc = "receive_next" /\ rpc' # rpc) =>
            IF Waiting = {}
            THEN rpc' = "main_inc"
            ELSE /\ rpc' = "provide_enter"
                 /\ n' \in Waiting
                 /\ \A g \in Waiting : n' <= g]_vars
    /\ []((rpc = "receive_count") =>
            /\ groupRecord[group] = ATTABLE
            /\ fSt.assignedTable[group] \in Tables
            /\ \A g \in Waiting : group < g)

\* group 1 asked before group 0, both had to wait; group 0 gets the table
C12_Witness ==
    /\ rpc = "receive_count"
    /\ served = <<TableRequest(2), TableRequest(1), TableRequest(0), BillRequest(2)>>
    /\ group = 0
    /\ groupRecord[1] = WAIT

(* ---------------- C13 ---------------- *)
\* C13: persistence of assignment changes.  Every change of a table
\* assignment is saved before the receptionist leaves the critical region,
\* so whenever mutex is free the last snapshot written by saveState has the
\* same table assignments as the shared block.
C13_AssignmentsPersisted ==
    (mutex = 1) => (saved.assignedTable = fSt.assignedTable)

(* ---------------- C14 ---------------- *)
LifecycleSteps ==
    {<<TOARRIVE, WAIT>>, <<TOARRIVE, ATTABLE>>, <<WAIT, ATTABLE>>, <<ATTABLE, DONE>>}

\* C14: group lifecycle.  groupRecord[g] only moves TOARRIVE -> WAIT,
\* TOARRIVE -> ATTABLE, WAIT -> ATTABLE, ATTABLE -> DONE; a DONE record never
\* changes again, and a DONE group has no table assignment.
C14_Lifecycle ==
    /\ [][\A g \in Groups :
            /\ (groupRecord'[g] # groupRecord[g]) =>
                   (<<groupRecord[g], groupRecord'[g]>> \in LifecycleSteps)
            /\ (groupRecord[g] = DONE) => (groupRecord'[g] = DONE)]_vars
    /\ [](\A g \in Groups : (groupRecord[g] = DONE) => (fSt.assignedTable[g] = -1))

\* a group that waited has been seated by the payment of a group now DONE
C14_Witness ==
    /\ rpc = "main_inc"
    /\ \E g, h \in Groups :
         /\ groupRecord[g] = DONE
         /\ groupRecord[h] = ATTABLE
         /\ req = BillRequest(g)
         /\ \E i, j \in 1 .. Len(served) :
              i < j /\ served[i] = TableRequest(g) /\ served[j] = TableRequest(h)
         /\ NUMTABLES = 1

(* ---------------- C15 ---------------- *)
\* the receptionist is at a down on mutex
AtMutexDown ==
    rpc \in {"waitForGroup_enter1", "waitForGroup_enter2", "provide_enter", "receive_enter"}

\* mutex is taken and no group is the one holding it
ReceptionistHolds == mutex = 0 /\ \A g \in Groups : ~GroupInside(g)

\* C15: the receptionist does not hold mutex when it reaches the down on
\* receptionistReq, nor when it reaches a down on mutex; in particular
\* provideTableOrWaitingRoom is entered from receivePayment with mutex
\* released by receivePayment.
C15_NoNestedRegion ==
    (rpc = "waitForGroup_block" \/ AtMutexDown) => ~ReceptionistHolds

\* the nested call is about to take mutex, which receivePayment has released
C15_Witness ==
    /\ rpc = "provide_enter"
    /\ caller = "receivePayment"
    /\ mutex = 1

(* ---------------- C16 ---------------- *)
\* C16: table-ready signalling.  waitForTable[g] is raised only by the
\* receptionist inside the critical region in which it has recorded a table
\* in [0, NUMTABLES) for g and set g to ATTABLE; it is raised at most once
\* per group and never exceeds 1; when a group's down on its semaphore
\* returns, the group has a valid table assignment.
C16_TableReadySignal ==
    /\ [][\A g \in Groups :
            /\ (waitForTable'[g] > waitForTable[g]) =>
                  /\ rpc = "provide_signal" /\ n = g
                  /\ ReceptionistInside /\ mutex = 0
                  /\ groupRecord[g] = ATTABLE
                  /\ fSt.assignedTable[g] \in Tables
                  /\ waitForTable[g] = 0
                  /\ gReq[g] = TABLEREQ
            /\ (waitForTable'[g] < waitForTable[g]) =>
                  /\ fSt.assignedTable[g] \in Tables
                  /\ fSt'.assignedTable[g] = fSt.assignedTable[g]]_vars
    /\ [](\A g \in Groups : waitForTable[g] \in {0, 1})

\* a group's down has returned while the receptionist is busy elsewhere
C16_Witness ==
    \E g \in Groups :
        /\ gReq[g] = BILLREQ
        /\ gpc[g] = "requestPossible"
        /\ waitForTable[g] = 0
        /\ groupRecord[g] = ATTABLE
        /\ fSt.assignedTable[g] = 1

(* ---------------- C17 ---------------- *)
RECURSIVE SumTableDone(_)
SumTableDone(t) == IF t >= MaxTables THEN 0 ELSE tableDone[t] + SumTableDone(t + 1)

\* payments whose "table vacated" release has been made
Vacated ==
    Cardinality({g \in Groups : groupRecord[g] = DONE}) +
    (IF rpc \in {"receive_clear", "receive_done"} THEN 1 ELSE 0)

\* C17: table-vacated signalling.  While receivePayment(n) runs up to its
\* release of tableDone, assignedTable[n] is an index in [0, NUMTABLES); the
\* semaphore raised is the one of that table, by one, before the assignment
\* is cleared; and there is exactly one such release per payment.
C17_TableVacatedSignal ==
    /\ []((rpc \in {"receive_enter", "receive_stat", "receive_save1", "receive_vacate"})
             => (fSt.assignedTable[payN] \in Tables /\ groupRecord[payN] = ATTABLE))
    /\ [][(tableDone' # tableDone) =>
             /\ rpc = "receive_vacate"
             /\ fSt.assignedTable[payN] \in Tables
             /\ tableDone' = [tableDone EXCEPT ![fSt.assignedTable[payN]] = @ + 1]
             /\ fSt'.assignedTable = fSt.assignedTable]_vars
    /\ [](SumTableDone(0) = Vacated)

\* the group at table 1 pays: tableDone[1] is raised, its table not yet cleared
C17_Witness ==
    /\ rpc = "receive_clear"
    /\ fSt.assignedTable[payN] = 1
    /\ tableDone[1] = 1
    /\ tableDone[0] = 0

(* ---------------- C18 ---------------- *)
StatusWrites == {"waitForGroup_stat", "provide_stat", "receive_stat"}
StatusSaves == {"waitForGroup_save1", "provide_save", "receive_save1"}

\* C18: coordinator status discipline.  receptionistStat changes only in a
\* step of the receptionist made while it holds mutex; the statement after
\* each status write is saveState, in the same critical region, so the saved
\* status differs from the published one only between the two; and at the
\* down on receptionistReq the published status is WAIT_FOR_REQUEST.
C18_StatusDiscipline ==
    /\ [][/\ (fSt'.receptionistStat # fSt.receptionistStat) =>
                (rpc \in StatusWrites /\ rpc' # rpc /\ mutex = 0 /\ ReceptionistHolds)
          /\ (rpc \in StatusWrites /\ rpc' # rpc) => (rpc' \in StatusSaves /\ mutex' = 0)
          /\ (rpc \in StatusSaves /\ rpc' # rpc) =>
                (saved' = fSt /\ mutex = 0 /\ ReceptionistHolds)]_vars
    /\ []((saved.receptionistStat # fSt.receptionistStat) => (rpc \in StatusSaves))
    /\ []((rpc = "waitForGroup_block") => (fSt.receptionistStat = WAIT_FOR_REQUEST))

\* back at the down on receptionistReq after a payment was handled
C18_Witness ==
    /\ rpc = "waitForGroup_block"
    /\ Len(served) >= 2
    /\ served[Len(served)].reqType = BILLREQ
    /\ nReq = Len(served)
    /\ fSt.receptionistStat = WAIT_FOR_REQUEST

(* ---------------- C19 ---------------- *)
\* C19: termination and final state.  Under weak fairness the receptionist
\* eventually leaves its loop; when it has, it has returned exactly
\* 2 * nGroups requests, every group is DONE (and has ended), no table is
\* assigned, groupsWaiting is 0 and the request slot is empty.
C19_Termination ==
    /\ <>(rpc = "main_end")
    /\ []((rpc = "main_end") =>
            /\ nReq = 2 * nGroups
            /\ Len(served) = 2 * nGroups
            /\ \A g \in Groups : groupRecord[g] = DONE /\ gpc[g] = "done"
            /\ \A g \in Groups : fSt.assignedTable[g] = -1
            /\ fSt.groupsWaiting = 0
            /\ fSt.receptionistRequest = EmptyRequest)

\* the receptionist has ended after serving two groups at one table
C19_Witness ==
    /\ rpc = "main_end"
    /\ nGroups = 2
    /\ NUMTABLES = 1
    /\ Len(served) = 4

(* ---------------- C20 ---------------- *)
\* C20: work conservation.  Whenever the receptionist stands at the down on
\* receptionistReq and some group is WAIT, every table in [0, NUMTABLES) is
\* assigned to some group.
C20_WorkConservation ==
    (rpc = "waitForGroup_block" /\ Waiting # {}) => (FreeTables = {})

\* after a payment: the freed table went to a waiting group, another waits
C20_Witness ==
    /\ rpc = "waitForGroup_block"
    /\ Waiting # {}
    /\ FreeTables = {}
    /\ \E g \in Groups : groupRecord[g] = DONE
    /\ \E g \in Groups : groupRecord[g] = ATTABLE /\ fSt.assignedTable[g] = 0

====
